---- MODULE Spec2Model ----
(***************************************************************************)
(* Model of src/archive/App.jsx: the React component App of the           *)
(* interactive timeline.  The state is the component's state (items,       *)
(* selectedEvent, isEditing), its refs (pendingSelection, the timeline     *)
(* widget handle), the browser's localStorage entry, the pending           *)
(* setTimeout callbacks, the FileReader reads in flight and the alerts     *)
(* raised.  Every action is one handler run to completion, together with   *)
(* the render and the [items] effects that its setItems call triggers.     *)
(***************************************************************************)
EXTENDS Integers, Sequences, FiniteSets, TLC

VARIABLES
    items,             \* useState: the event store (a sequence of records)
    selectedEvent,     \* useState: the selected record, or JSNull
    isEditing,         \* useState: edit mode flag
    pendingSelection,  \* useRef: id to select after the next items effect
    localStorage,      \* value under LOCAL_STORAGE_KEY, or JSNull when absent
    timelineItems,     \* timelineInstance.current.itemsData
    timelineSelection, \* ids selected in the timeline widget
    timers,            \* pending setTimeout callbacks, in firing order
    reads,             \* the texts of the FileReader reads in flight
    alerts,            \* the alert() calls of the handler that ran last
    exported,          \* timeline-export.json holds the current dataStr
    clock,             \* a lower bound of the next Date.now()
    deletedIds         \* history: the ids that handleDeleteEvent removed and
                       \* whose deferred selection is still pending

vars == <<items, selectedEvent, isEditing, pendingSelection, localStorage,
          timelineItems, timelineSelection, timers, reads, alerts,
          exported, clock, deletedIds>>

-----------------------------------------------------------------------------
(* Bounds of the model. *)

MaxClock == 1
MaxReads == 1

-----------------------------------------------------------------------------
(* JavaScript values.  A scalar that may be of more than one type is a     *)
(* tagged record; the fields that are always strings are plain strings.    *)

JSNull == [type |-> "null", val |-> "null"]
JSString(s) == [type |-> "string", val |-> s]
JSNumber(s) == [type |-> "number", val |-> s]
NaN == JSNumber("NaN")

LOCAL_STORAGE_KEY == "timeline-events"

\* parseFloat on the texts the forms of this model submit: the longest
\* numeric prefix, NaN when there is none.
parseFloat(s) ==
    CASE s = "0" -> JSNumber("0")
      [] s = "48.85" -> JSNumber("48.85")
      [] s = "2.35E" -> JSNumber("2.35")
      [] OTHER -> NaN

\* form.end.value || null : the empty string is falsy.
OrNull(s) == IF s = "" THEN JSNull ELSE JSString(s)

\* Date.now().toString()
DateNowToString(now) == ToString(now)

-----------------------------------------------------------------------------
(* The values the add form and the edit form submit (form.<name>.value).   *)

Forms ==
    { [title |-> "Launch", start |-> "2024-01-01", end |-> "",
       description |-> "", image |-> "", locationName |-> "",
       lat |-> "0", lng |-> "0"],
      [title |-> "Landing", start |-> "2024-02-01", end |-> "2024-02-03",
       description |-> "d", image |-> "i.png", locationName |-> "Paris",
       lat |-> "48.85", lng |-> ""] }

\* The object literal of handleAddEvent.
NewEvent(form, now) ==
    [id |-> DateNowToString(now),
     content |-> form.title,
     start |-> form.start,
     end |-> OrNull(form.end),
     title |-> form.title,
     description |-> form.description,
     image |-> form.image,
     location |-> [name |-> form.locationName,
                   lat |-> parseFloat(form.lat),
                   lng |-> parseFloat(form.lng)],
     linksTo |-> <<>>]

\* The object literal of handleEditSubmit: the spread of selectedEvent,
\* then the submitted fields.
UpdatedEvent(selected, form) ==
    [selected EXCEPT
       !.content = form.title,
       !.start = form.start,
       !.end = OrNull(form.end),
       !.title = form.title,
       !.description = form.description,
       !.image = form.image,
       !.location = [name |-> form.locationName,
                     lat |-> parseFloat(form.lat),
                     lng |-> parseFloat(form.lng)]]

-----------------------------------------------------------------------------
(* JSON.  A text is modelled by what a parser sees of it: whether it is    *)
(* well-formed, its indentation, the type of its top-level value and, for  *)
(* an array, its elements.                                                 *)

\* JSON.stringify of a number: NaN has no JSON form and is written null.
NumberToJSON(n) == IF n = NaN THEN JSNull ELSE n

RecordToJSON(e) ==
    [e EXCEPT !.location.lat = NumberToJSON(@),
              !.location.lng = NumberToJSON(@)]

\* JSON.stringify(array, null, indent)
JSONstringify(array, indent) ==
    [wellFormed |-> TRUE, indent |-> indent, top |-> "array",
     elems |-> [i \in 1..Len(array) |-> RecordToJSON(array[i])]]

\* JSON.parse either throws or returns the value the text denotes.
JSONparseThrows(text) == ~text.wellFormed
ArrayIsArray(text) == text.top = "array"
JSONparse(text) == text.elems


-----------------------------------------------------------------------------
(* The files the user can pick in the import control.                      *)

MoonEvent ==
    [id |-> "2", content |-> "Moon", start |-> "1969-07-20", end |-> JSNull,
     title |-> "Moon", description |-> "", image |-> "",
     location |-> [name |-> "", lat |-> JSNumber("0"), lng |-> JSNumber("0")],
     linksTo |-> <<"1">>]

MarsEvent == [MoonEvent EXCEPT !.content = "Mars", !.title = "Mars"]

JSONText(top, elems) ==
    [wellFormed |-> TRUE, indent |-> 2, top |-> top, elems |-> elems]

GarbageText ==
    [wellFormed |-> FALSE, indent |-> 0, top |-> "none", elems |-> <<>>]

\* an unparseable text, an object, an array of one record, and an array
\* whose two records carry the same id
Files ==
    { GarbageText,
      JSONText("object", <<>>),
      JSONText("array", <<MoonEvent>>),
      JSONText("array", <<MoonEvent, MarsEvent>>) }

-----------------------------------------------------------------------------
(* Helpers on sequences of records.                                        *)

Range(seq) == { seq[i] : i \in 1..Len(seq) }

\* array.filter(keep)
RECURSIVE FilterOutId(_, _)
FilterOutId(array, id) ==
    IF array = <<>> THEN <<>>
    ELSE IF Head(array).id # id
         THEN <<Head(array)>> \o FilterOutId(Tail(array), id)
         ELSE FilterOutId(Tail(array), id)

\* a map that replaces every record
MapReplaceAll(array, updated) ==
    [i \in 1..Len(array) |-> updated]

\* array.map(item => item.id === updated.id ? updated : item)
MapReplace(array, updated) ==
    [i \in 1..Len(array) |->
        IF array[i].id = updated.id THEN updated ELSE array[i]]

\* array.find(e => e.id === id): the first match, JSNull for undefined
Find(array, id) ==
    IF \E i \in 1..Len(array) : array[i].id = id
    THEN array[CHOOSE i \in 1..Len(array) :
                 /\ array[i].id = id
                 /\ \A j \in 1..(i - 1) : array[j].id # id]
    ELSE JSNull

-----------------------------------------------------------------------------
(* The effects with dependency [items].  setItems always installs a new    *)
(* array object, so both effects run after every setItems call.            *)

\* the effect pushing the array of the previous render to the widget
TimelineSyncEffectStale(newItems, pending) ==
    /\ timelineItems' = items
    /\ timelineSelection' = {}
    /\ pendingSelection' = JSNull
    /\ timers' = IF pending # JSNull
                 THEN Append(timers, [idToSelect |-> pending.val,
                                      event |-> Find(newItems, pending.val)])
                 ELSE timers

\* useEffect(..., [items]), lines 56-76: push the records to the widget and
\* schedule the deferred selection of pendingSelection.current.  The
\* callback reads the array it captured only through items.find(...), whose
\* result is fixed when the callback is created: the timer holds that result.
TimelineSyncEffect(newItems, pending) ==
    /\ timelineItems' = newItems
    /\ timelineSelection' = {}
    /\ pendingSelection' = JSNull
    /\ timers' = IF pending # JSNull
                 THEN Append(timers, [idToSelect |-> pending.val,
                                      event |-> Find(newItems, pending.val)])
                 ELSE timers

\* a persistence effect that serializes the array of the previous render
PersistEffectStale(newItems) ==
    localStorage' = JSONstringify(items, 0)

\* useEffect(..., [items]), lines 78-80
PersistEffect(newItems) ==
    localStorage' = JSONstringify(newItems, 0)

ItemsEffects(newItems, pending) ==
    /\ TimelineSyncEffect(newItems, pending)
    /\ PersistEffect(newItems)

NoItemsEffects ==
    UNCHANGED <<timelineItems, timelineSelection, pendingSelection, timers,
                localStorage>>

-----------------------------------------------------------------------------
(* Startup: the useState initializers and the mount effects.               *)

\* useState(() => { ... }) of items
InitialItems(stored) ==
    IF stored # JSNull THEN JSONparse(stored) ELSE <<>>

Mount(stored) ==
    /\ items' = InitialItems(stored)
    /\ selectedEvent' = JSNull
    /\ isEditing' = FALSE
    /\ timelineItems' = InitialItems(stored)
    /\ timelineSelection' = {}
    /\ pendingSelection' = JSNull
    /\ localStorage' = JSONstringify(InitialItems(stored), 0)

\* the first start: no value is stored under the key, and the mount effects
\* have run (the persistence effect has written the empty array)
Init ==
    /\ items = <<>>
    /\ selectedEvent = JSNull
    /\ isEditing = FALSE
    /\ pendingSelection = JSNull
    /\ localStorage = JSONstringify(<<>>, 0)
    /\ timelineItems = <<>>
    /\ timelineSelection = {}
    /\ timers = <<>>
    /\ reads = {}
    /\ alerts = <<>>
    /\ clock = 1
    /\ exported = FALSE
    /\ deletedIds = {}

-----------------------------------------------------------------------------
(* The handlers.                                                           *)

\* const dataStr = JSON.stringify(items, null, 2)
dataStr == JSONstringify(items, 2)

\* the exported file still holds the text handleExport would write
StillExported(newItems) == exported /\ JSONstringify(newItems, 2) = dataStr

\* an add handler that leaves out setSelectedEvent(newEvent)
handleAddEventNoSelect(form, now) ==
    /\ UNCHANGED deletedIds
    /\ alerts' = <<>>
    /\ now >= clock /\ now <= MaxClock
    /\ clock' = now + 1
    /\ items' = Append(items, NewEvent(form, now))
    /\ exported' = StillExported(Append(items, NewEvent(form, now)))
    /\ ItemsEffects(Append(items, NewEvent(form, now)),
                    JSString(NewEvent(form, now).id))
    /\ UNCHANGED <<selectedEvent, isEditing, reads>>

handleAddEvent(form, now) ==
    /\ UNCHANGED deletedIds
    /\ alerts' = <<>>
    /\ now >= clock /\ now <= MaxClock
    /\ clock' = now + 1
    /\ items' = Append(items, NewEvent(form, now))
    /\ selectedEvent' = NewEvent(form, now)
    /\ ItemsEffects(Append(items, NewEvent(form, now)),
                    JSString(NewEvent(form, now).id))
    /\ exported' = StillExported(Append(items, NewEvent(form, now)))
    /\ UNCHANGED <<isEditing, reads>>

\* the text dataStr is offered as the file timeline-export.json; the state
\* of the component does not change
handleExport ==
    /\ UNCHANGED deletedIds
    /\ alerts' = <<>>
    /\ exported' = TRUE
    /\ UNCHANGED <<items, selectedEvent, isEditing, reads, clock>>
    /\ NoItemsEffects

\* the user picks a file: reader.readAsText(file) starts a read (a change
\* event without a file returns at once and changes nothing)
handleImport(file) ==
    /\ UNCHANGED deletedIds
    /\ alerts' = <<>>
    /\ Cardinality(reads) < MaxReads
    /\ reads' = reads \cup {file}
    /\ UNCHANGED <<items, selectedEvent, isEditing, exported, clock>>
    /\ NoItemsEffects

\* an onload that leaves out the alert of the else branch
OnLoadSilentElse(text) ==
    IF JSONparseThrows(text)
    THEN /\ alerts' = <<"Erreur lors de l'importation du fichier JSON.">>
         /\ UNCHANGED <<items, exported>>
         /\ NoItemsEffects
    ELSE IF ArrayIsArray(text)
    THEN /\ items' = JSONparse(text)
         /\ exported' = StillExported(JSONparse(text))
         /\ ItemsEffects(JSONparse(text), pendingSelection)
         /\ alerts' = <<>>
    ELSE /\ alerts' = <<>>
         /\ UNCHANGED <<items, exported>>
         /\ NoItemsEffects

\* an onload that appends the imported array to the store
OnLoadAppend(text) ==
    IF JSONparseThrows(text)
    THEN /\ alerts' = <<"Erreur lors de l'importation du fichier JSON.">>
         /\ UNCHANGED <<items, exported>>
         /\ NoItemsEffects
    ELSE IF ArrayIsArray(text)
    THEN /\ items' = items \o JSONparse(text)
         /\ exported' = StillExported(items \o JSONparse(text))
         /\ ItemsEffects(items \o JSONparse(text), pendingSelection)
         /\ alerts' = <<>>
    ELSE /\ alerts' = <<"Le fichier n'est pas un tableau valide.">>
         /\ UNCHANGED <<items, exported>>
         /\ NoItemsEffects

\* the body of reader.onload for the text read
OnLoad(text) ==
    IF JSONparseThrows(text)
    THEN /\ alerts' = <<"Erreur lors de l'importation du fichier JSON.">>
         /\ UNCHANGED <<items, exported>>
         /\ NoItemsEffects
    ELSE IF ArrayIsArray(text)
    THEN /\ items' = JSONparse(text)
         /\ exported' = StillExported(JSONparse(text))
         /\ ItemsEffects(JSONparse(text), pendingSelection)
         /\ alerts' = <<>>
    ELSE /\ alerts' = <<"Le fichier n'est pas un tableau valide.">>
         /\ UNCHANGED <<items, exported>>
         /\ NoItemsEffects

\* reader.onload: the read of the text completes
readerOnload(text) ==
    /\ UNCHANGED deletedIds
    /\ text \in reads
    /\ reads' = reads \ {text}
    /\ OnLoad(text)
    /\ UNCHANGED <<selectedEvent, isEditing, clock>>

\* the user picks the file handleExport wrote, while the store is as it was
\* exported, and its read completes before any other event
importExported ==
    /\ UNCHANGED deletedIds
    /\ exported
    /\ OnLoad(dataStr)
    /\ UNCHANGED <<selectedEvent, isEditing, reads, clock>>

\* the Delete button is rendered in the read-only panel of a selected event
handleDeleteEvent ==
    /\ alerts' = <<>>
    /\ selectedEvent # JSNull
    /\ ~isEditing
    /\ deletedIds' =
          { id \in deletedIds \cup {selectedEvent.id} :
               /\ \E t \in Range(timers) : t.idToSelect = id
               /\ id = selectedEvent.id => \E e \in Range(items) : e.id = id }
    /\ items' = FilterOutId(items, selectedEvent.id)
    /\ selectedEvent' = JSNull
    /\ ItemsEffects(FilterOutId(items, selectedEvent.id), pendingSelection)
    /\ exported' = StillExported(FilterOutId(items, selectedEvent.id))
    /\ UNCHANGED <<isEditing, reads, clock>>

\* the edit form is rendered for a selected event in edit mode
handleEditSubmit(form) ==
    /\ UNCHANGED deletedIds
    /\ alerts' = <<>>
    /\ selectedEvent # JSNull
    /\ isEditing
    /\ items' = MapReplace(items, UpdatedEvent(selectedEvent, form))
    /\ selectedEvent' = UpdatedEvent(selectedEvent, form)
    /\ isEditing' = FALSE
    /\ ItemsEffects(MapReplace(items, UpdatedEvent(selectedEvent, form)),
                    pendingSelection)
    /\ exported' =
          StillExported(MapReplace(items, UpdatedEvent(selectedEvent, form)))
    /\ UNCHANGED <<reads, clock>>

\* the Edit button: onClick={() => setIsEditing(true)}
clickEdit ==
    /\ UNCHANGED deletedIds
    /\ alerts' = <<>>
    /\ selectedEvent # JSNull
    /\ ~isEditing
    /\ isEditing' = TRUE
    /\ UNCHANGED exported
    /\ UNCHANGED <<items, selectedEvent, reads, clock>>
    /\ NoItemsEffects

\* the Cancel button: onClick={() => setIsEditing(false)}
clickCancel ==
    /\ UNCHANGED deletedIds
    /\ alerts' = <<>>
    /\ selectedEvent # JSNull
    /\ isEditing
    /\ isEditing' = FALSE
    /\ UNCHANGED exported
    /\ UNCHANGED <<items, selectedEvent, reads, clock>>
    /\ NoItemsEffects

\* itemsData.get(eventId): a record of the widget with that id
TimelineGet(eventId) == { e \in Range(timelineItems) : e.id = eventId }

\* a select handler that leaves out setIsEditing(false)
timelineOnSelectKeepEditing(propsItems) ==
    /\ UNCHANGED deletedIds
    /\ alerts' = <<>>
    /\ timelineSelection' = Range(propsItems)
    /\ IF propsItems # <<>>
       THEN \E event \in TimelineGet(propsItems[1]) : selectedEvent' = event
       ELSE selectedEvent' = JSNull
    /\ UNCHANGED <<items, isEditing, exported, pendingSelection, localStorage,
                   timelineItems, timers, reads, clock>>

\* timeline.on("select", ...): the user clicked the item propsItems[1], or
\* the background when propsItems is empty
timelineOnSelect(propsItems) ==
    /\ UNCHANGED deletedIds
    /\ alerts' = <<>>
    /\ timelineSelection' = Range(propsItems)
    /\ IF propsItems # <<>>
       THEN \E event \in TimelineGet(propsItems[1]) : selectedEvent' = event
       ELSE selectedEvent' = JSNull
    /\ isEditing' = FALSE
    /\ UNCHANGED exported
    /\ UNCHANGED <<items, pendingSelection, localStorage, timelineItems,
                   timers, reads, clock>>

\* the setTimeout callback of the items effect, lines 65-73
timeoutCallback ==
    /\ alerts' = <<>>
    /\ timers # <<>>
    /\ timers' = Tail(timers)
    /\ deletedIds' =
          { id \in deletedIds :
               \E t \in Range(Tail(timers)) : t.idToSelect = id }
    /\ timelineSelection' =
          { id \in {Head(timers).idToSelect} : TimelineGet(id) # {} }
    /\ selectedEvent' =
          IF Head(timers).event # JSNull THEN Head(timers).event
          ELSE selectedEvent
    /\ UNCHANGED exported
    /\ UNCHANGED <<items, isEditing, pendingSelection, localStorage,
                   timelineItems, reads, clock>>

\* the page is reloaded: the component is constructed again from the stored
\* value, which the user may have removed while the page was closed
reload(stored) ==
    /\ deletedIds' = {}
    /\ alerts' = <<>>
    /\ Mount(stored)
    /\ timers' = <<>>
    /\ reads' = {}
    /\ exported' = StillExported(InitialItems(stored))
    /\ UNCHANGED clock

Next ==
    \/ \E form \in Forms, now \in 1..MaxClock : handleAddEvent(form, now)
    \/ handleExport
    \/ \E file \in Files : handleImport(file)
    \/ \E text \in reads : readerOnload(text)
    \/ importExported
    \/ handleDeleteEvent
    \/ \E form \in Forms : handleEditSubmit(form)
    \/ clickEdit
    \/ clickCancel
    \/ \E propsItems \in {<<>>} \cup { <<e.id>> : e \in Range(timelineItems) } :
          timelineOnSelect(propsItems)
    \/ timeoutCallback
    \/ \E stored \in {localStorage, JSNull} : reload(stored)

Spec == Init /\ [][Next]_vars

-----------------------------------------------------------------------------
(* The properties.                                                         *)

HasDuplicateIds(array) ==
    \E i, j \in 1..Len(array) : i # j /\ array[i].id = array[j].id

InStore(event) == \E i \in 1..Len(items) : items[i] = event

\* C1: every add-form submit makes the store one record longer, keeps the
\* records it had, puts the new record last and selects it.
C1_AddAppendsAndSelects ==
    [][\A form \in Forms, now \in 1..MaxClock :
          handleAddEvent(form, now) =>
             /\ Len(items') = Len(items) + 1
             /\ SubSeq(items', 1, Len(items)) = items
             /\ items'[Len(items')] = NewEvent(form, now)
             /\ selectedEvent' = items'[Len(items')]]_vars

\* an add has run and nothing has changed the selection since: the deferred
\* selection of the new record is still pending, and the record is the last
\* of the store and the selected one
C1_Witness ==
    /\ timers # <<>>
    /\ items # <<>>
    /\ items[Len(items)].id = timers[Len(timers)].idToSelect
    /\ selectedEvent = items[Len(items)]

\* C2: whenever an event is selected, Delete makes the store exactly one
\* record shorter and clears the selection.
C2_DeleteRemovesExactlyOne ==
    [][handleDeleteEvent =>
          /\ Len(items') = Len(items) - 1
          /\ selectedEvent' = JSNull]_vars

\* C3: after the edit-form submit on the selected record, the store holds a
\* record with its id that carries the submitted fields, that record is the
\* selected one, and edit mode is off.
C3_EditUpdatesStoredRecord ==
    [][\A form \in Forms :
          handleEditSubmit(form) =>
             /\ \E i \in 1..Len(items') :
                   /\ items'[i].id = selectedEvent.id
                   /\ items'[i].title = form.title
                   /\ items'[i].start = form.start
                   /\ items'[i].end = OrNull(form.end)
                   /\ items'[i].description = form.description
                   /\ items'[i].image = form.image
                   /\ items'[i].location.name = form.locationName
                   /\ items'[i].location.lat = parseFloat(form.lat)
                   /\ items'[i].location.lng = parseFloat(form.lng)
                   /\ selectedEvent' = items'[i]
             /\ isEditing' = FALSE]_vars

\* C4: the completion of a read whose text does not parse, or parses to a
\* value that is no array, leaves the store, the persisted value and the
\* selection as they were and raises exactly one alert.
C4_FailedImportChangesNothing ==
    [][\A text \in Files :
          (readerOnload(text) /\ (JSONparseThrows(text) \/ ~ArrayIsArray(text)))
          => /\ items' = items
             /\ localStorage' = localStorage
             /\ selectedEvent' = selectedEvent
             /\ Len(alerts') = 1]_vars

\* a failed import has just completed on a store that holds records, one of
\* them selected
C4_Witness ==
    /\ Len(alerts) = 1
    /\ items # <<>>
    /\ selectedEvent # JSNull

\* C5: the completion of a read whose text parses to an array makes the
\* store exactly that array, whatever ran since the file was picked.
C5_ImportReplacesStore ==
    [][\A text \in Files :
          (readerOnload(text) /\ ~JSONparseThrows(text) /\ ArrayIsArray(text))
          => items' = text.elems]_vars

\* the store is the imported array although a record was added while the
\* application ran (its deferred selection is still pending): the added
\* record has disappeared
C5_Witness ==
    /\ items = <<MoonEvent>>
    /\ timers # <<>>
    /\ \A i \in 1..Len(items) : items[i].id # Head(timers).idToSelect

\* C6: importing the document handleExport produced, with no mutation in
\* between, leaves the store equal to what it was.
C6_ExportImportRoundTrip ==
    [][importExported => items' = items]_vars

\* C7: no two records of the store have the same id.
C7_IdsUnique == ~HasDuplicateIds(items)

\* C8: every step that changes selectedEvent leaves isEditing false.
C8_SelectionChangeResetsEditing ==
    [][selectedEvent' # selectedEvent => isEditing' = FALSE]_vars

\* C9: the value stored under LOCAL_STORAGE_KEY is the serialization of the
\* current store.
C9_PersistedIsCurrentStore ==
    localStorage = JSONstringify(items, 0)

\* the store holds records, one of them not equal to its serialized form,
\* and the persisted value is the serialization
C9_Witness ==
    /\ items # <<>>
    /\ localStorage.elems # items
    /\ localStorage = JSONstringify(items, 0)

\* C10: restarting the application on the persisted value yields the store
\* the application had before the restart.
C10_RestartRestoresStore ==
    [][reload(localStorage) => items' = items]_vars

\* the step is a run of handleAddEvent
IsAddStep == \E form \in Forms, now \in 1..MaxClock : handleAddEvent(form, now)

\* the step is a widget select notification
IsSelectStep ==
    \E propsItems \in {<<>>} \cup { <<e.id>> : e \in Range(timelineItems) } :
       timelineOnSelect(propsItems)

\* C11: when the deferred callback of an add fires, the widget selection is
\* the id of the added record and selectedEvent is that record; the pending
\* selection marker is clear once the effect has run, and every add
\* schedules exactly one callback while no other step schedules any.
C11_DeferredSelectionSelectsAdded ==
    [][/\ timeoutCallback =>
             /\ timelineSelection' = {Head(timers).idToSelect}
             /\ selectedEvent'.id = Head(timers).idToSelect
             /\ \E form \in Forms, now \in 1..MaxClock :
                   selectedEvent' = NewEvent(form, now)
       /\ pendingSelection' = JSNull
       /\ IsAddStep => Len(timers') = Len(timers) + 1
       /\ ~IsAddStep => Len(timers') <= Len(timers)]_vars

\* C12: the widget holds exactly the records of the store, and a select
\* notification for an id selects a record the store holds for that id.
C12_WidgetHoldsStore ==
    [][/\ timelineItems' = items'
       /\ \A propsItems \in { <<e.id>> : e \in Range(timelineItems) } :
             timelineOnSelect(propsItems) =>
                /\ selectedEvent'.id = propsItems[1]
                /\ InStore(selectedEvent')]_vars

\* no add has run, so the selection comes from a select notification: the
\* selected record is in the store and is the item selected in the widget
C12_Witness ==
    /\ clock = 1
    /\ selectedEvent # JSNull
    /\ InStore(selectedEvent)
    /\ timelineItems = items
    /\ timelineSelection = {selectedEvent.id}

\* C13: an edit submit keeps the length of the store and every record whose
\* id is not the selected one in its place; a delete leaves exactly the
\* records whose id is not the selected one, in their order.
C13_EditDeleteTouchOnlySelectedId ==
    [][/\ \A form \in Forms :
             handleEditSubmit(form) =>
                /\ Len(items') = Len(items)
                /\ \A i \in 1..Len(items) :
                      items[i].id # selectedEvent.id => items'[i] = items[i]
       /\ handleDeleteEvent =>
             items' = SelectSeq(items, LAMBDA e : e.id # selectedEvent.id)]_vars

\* the imported record has been edited (only an edit gives it the title
\* Landing) and the record added after the import is still behind it
C13_Witness ==
    /\ Len(items) = 2
    /\ items[1].id = MoonEvent.id
    /\ items[1].title = "Landing"
    /\ items[1].linksTo = MoonEvent.linksTo
    /\ items[2].id # MoonEvent.id
    /\ \E form \in Forms, now \in 1..MaxClock : items[2] = NewEvent(form, now)

\* C14: the selected record is absent or equal to a record of the store.
C14_SelectedIsInStore ==
    selectedEvent = JSNull \/ InStore(selectedEvent)

\* C16: edit mode is on only while an event is selected.
C16_EditingImpliesSelected ==
    isEditing => selectedEvent # JSNull

\* the edit form is shown for a selected record
C16_Witness ==
    /\ isEditing
    /\ selectedEvent # JSNull
    /\ InStore(selectedEvent)

\* the step is a run of handleEditSubmit
IsEditSubmitStep == \E form \in Forms : handleEditSubmit(form)

\* C15: a record that handleDeleteEvent removed, and that the store does
\* not hold, becomes the selected record only by a step the user takes (an
\* add, a select notification, an edit submit); in particular not by a
\* deferred callback that was scheduled before the delete.
C15_DeletedNotSelectedAgain ==
    [][(/\ selectedEvent' # JSNull
        /\ selectedEvent' # selectedEvent
        /\ selectedEvent'.id \in deletedIds
        /\ \A e \in Range(items') : e.id # selectedEvent'.id)
       => (IsAddStep \/ IsSelectStep \/ IsEditSubmitStep)]_vars

=============================================================================
